---- MODULE Spec2Model ----
(***************************************************************************)
(* Model of src/app.py: the Streamlit app that turns an uploaded Data.zip  *)
(* of PLA quantification results into one or two summary presentations.    *)
(*                                                                         *)
(* A generation run is: load_first_page (start button pressed with an      *)
(* uploaded file) -> process_files (extraction of the records of every     *)
(* condition, then the grouping loop) -> generate_pptxs (one pass per      *)
(* active approach, slide_maker once per group, then save). An exception   *)
(* ends the run (pc = "raised").                                           *)
(*                                                                         *)
(* Spec is one generation in a fresh session: nothing cached by            *)
(* st.cache_data, no presentation saved. SpecOrder is the same with csv    *)
(* rows in any order. SpecRuns is a session with several generations: the  *)
(* cache, the Data folder, the saved files and st.session_state persist.   *)
(* SpecWait is one generation whose zip may hold no Data folder, with the  *)
(* steps of the loop that waits for it. SpecSession is a session from its  *)
(* first script run, with the user's requests and the reruns they cause.   *)
(*                                                                         *)
(* Python values: a list is a sequence; list index i is sequence index     *)
(* i+1. None is PyNone. A str is a sequence of pieces (characters or the   *)
(* fixed fragments the code replaces), so that str(), int() and replace()  *)
(* are real conversions. Lengths in centimetres are kept in hundredths of  *)
(* a centimetre; Cm() converts them to EMU as pptx.util.Cm does.           *)
(***************************************************************************)
EXTENDS Integers, Sequences, FiniteSets, TLC

(***************************************************************************)
(* Bounds of the uploaded data.                                            *)
(***************************************************************************)
\* cells quantified in the first image of the first condition
MaxRows == 23
\* cells quantified in the second image of the first condition
MaxSecond == 3
\* cells quantified in each image of every later condition
MaxLater == 1

(***************************************************************************)
(* Python values                                                           *)
(***************************************************************************)
PyNone == <<"NoneType">>

IsNone(x) == x[1] = "NoneType"

PyInt(n) == <<"int", n>>

IntOf(x) == x[2]

DigitChar == <<"0", "1", "2", "3", "4", "5", "6", "7", "8", "9">>

DigitVal(c) == CHOOSE d \in 0..9 : DigitChar[d + 1] = c

\* str(n) of a non-negative int: its decimal digits, most significant first
RECURSIVE DecStr(_)
DecStr(n) == IF n < 10 THEN <<DigitChar[n + 1]>>
             ELSE Append(DecStr(n \div 10), DigitChar[(n % 10) + 1])

\* str(x) of a Python int or of None
str(x) == IF IsNone(x) THEN <<"N", "o", "n", "e">> ELSE DecStr(IntOf(x))

\* int(s) of a decimal digit string
RECURSIVE int(_)
int(s) == IF Len(s) = 0 THEN 0
          ELSE int(SubSeq(s, 1, Len(s) - 1)) * 10 + DigitVal(s[Len(s)])

\* s.replace(old, new): every occurrence of the run of pieces old becomes new
RECURSIVE replace(_, _, _)
replace(s, old, new) ==
    IF Len(s) < Len(old) THEN s
    ELSE IF SubSeq(s, 1, Len(old)) = old
         THEN new \o replace(SubSeq(s, Len(old) + 1, Len(s)), old, new)
         ELSE <<s[1]>> \o replace(Tail(s), old, new)

(***************************************************************************)
(* The uploaded data: conditions in discovery order, each with the rows of *)
(* its Results.csv as pandas reads them.                                   *)
(***************************************************************************)
Titles == <<"Control", "Treated">>

Subtitles == <<"Row_01_05", "Row_06_10">>

Approaches == {"Both", "Thresholding only", "Find Maxima only"}

SubtitleRank(s) == CHOOSE k \in 1..Len(Subtitles) : Subtitles[k] = s

\* rank of a piece of a roi file name in character order: "_" follows the digits
PieceRank(c) == IF \E d \in 0..9 : DigitChar[d + 1] = c THEN DigitVal(c) ELSE 10

\* lexicographic order of two sequences of integers
RECURSIVE LexLess(_, _)
LexLess(a, b) ==
    IF Len(a) = 0 THEN Len(b) > 0
    ELSE IF Len(b) = 0 THEN FALSE
    ELSE IF a[1] # b[1] THEN a[1] < b[1]
    ELSE LexLess(Tail(a), Tail(b))

\* the pair x = <<key, value>> put into a sequence of pairs sorted by key,
\* after the pairs whose key is not greater
InsertSorted(pairs, x) ==
    LET later == {k \in 1..Len(pairs) : LexLess(x[1], pairs[k][1])}
        p == IF later = {} THEN Len(pairs) + 1
             ELSE CHOOSE k \in later : \A j \in later : k <= j
    IN SubSeq(pairs, 1, p - 1) \o <<x>> \o SubSeq(pairs, p, Len(pairs))

\* the values of the pairs <<key, value>> in ascending order of key (stable)
SortBy(pairs) ==
    LET sorted[k \in 0..Len(pairs)] ==
            IF k = 0 THEN <<>> ELSE InsertSorted(sorted[k - 1], pairs[k])
    IN [j \in 1..Len(pairs) |-> sorted[Len(pairs)][j][2]]

\* one row of Results.csv for cell n of image sub
CsvRow(sub, n) ==
    [Image_used |-> <<"MAX_", sub, ".tif">>,
     Cell_quantified |-> Append(DecStr(n), "_1.roi"),
     Particle_count_threshold |-> PyInt(3 * n),
     Particle_count_maxima |-> PyInt(3 * n + 1)]

\* alphabetical key of a row: its image, then the characters of its roi file
CsvAlphaKey(row) ==
    <<SubtitleRank(row.Image_used[2])>>
        \o [k \in 1..Len(row.Cell_quantified) |-> PieceRank(row.Cell_quantified[k])]

\* the Results.csv of a condition with n1 cells in the first image and n2
\* in the second, rows in alphabetical order of image and roi file names
ResultsCsv(n1, n2) ==
    SortBy([k \in 1..(n1 + n2) |->
               LET row == IF k <= n1 THEN CsvRow(Subtitles[1], k)
                          ELSE CsvRow(Subtitles[2], k - n1)
               IN <<CsvAlphaKey(row), row>>])

\* path of the Results.csv of a condition
CsvPath(title) == <<"Data", title, "Quantification", "Results.csv">>

\* the images a Data folder can lack: none, or a particle mask of cell 1 of
\* the first image, or the Find Maxima mask of cell 1 of the second image
MissingChoices ==
    {{}} \cup {{<<"Data", Titles[1], "Cropped cells", kind, Subtitles[1], "1", "_1.jpg">>} :
                 kind \in {"T_Particles", "FM_Particles"}}
         \cup {{<<"Data", Titles[1], "Cropped cells", "FM_Particles", Subtitles[2], "1", "_1.jpg">>}}

\* the Data.zip files a user can upload
Uploads ==
    UNION {LET first == ResultsCsv(a1, a2)
           IN UNION {LET later == ResultsCsv(b1, b2)
                     IN {[conditions |->
                             <<[csv |-> CsvPath(Titles[1]), table |-> first],
                               [csv |-> CsvPath(Titles[2]), table |-> later]>>,
                          missing |-> m] : m \in MissingChoices} :
                        b1 \in 0..MaxLater, b2 \in 0..MaxLater} :
              a1 \in 0..MaxRows, a2 \in 0..MaxSecond}

(***************************************************************************)
(* State                                                                   *)
(***************************************************************************)
VARIABLES
    pc,                    \* position in the script run
    T_and_FM,              \* the radio button's value
    data_zipfile,          \* the working directory, as the extractions left it
    condition_index,       \* conditions already read by process_files
    all_info_for_slides,   \* process_files: one record per cell
    all_slides_content,    \* process_files: the groups dumped so far; its return value
    temp_slide,            \* process_files: the group being filled
    current_title,
    current_subtitle,
    info_index,            \* records already visited by the grouping loop
    presentation_T,        \* generate_pptxs: the slides of each presentation
    presentation_FM,
    slide_index,           \* groups already passed to slide_maker in this pass
    latest_image_count,    \* image_count_for_slide of the latest slide_maker call
    saved,                 \* the pptx files written to current_directory
    session_state,         \* the keys of st.session_state that are set, of those of
                           \* DirectoryKeys and path1 / path2
    raised,                \* the exception that ended the run, or "none"
    cache,                 \* st.cache_data of process_files: argument -> returned value
    uploaded_file,         \* the file in the uploader when the button was pressed
    runs,                  \* how many times the button started a generation
    browser                \* the session's page: the menu's value, what is displayed,
                           \* the button's value in this script run, the user's request

vars == <<pc, T_and_FM, data_zipfile, condition_index, all_info_for_slides,
          all_slides_content, temp_slide, current_title, current_subtitle,
          info_index, presentation_T, presentation_FM, slide_index,
          latest_image_count, saved, session_state, raised, cache, uploaded_file,
          runs, browser>>

processVars == <<all_info_for_slides, all_slides_content, temp_slide,
                 current_title, current_subtitle, info_index, condition_index>>

generateVars == <<presentation_T, presentation_FM, slide_index,
                  latest_image_count, saved>>

runVars == <<cache, uploaded_file, runs, browser>>

\* the keys change_pages sets at the end of every script run
DirectoryKeys == {"current_directory", "template_pptx"}

\* the pages of the menu; the first is its default
Pages == <<"Generate pptx", "How to use this app", "Info on pptx design">>

\* no request of the user is waiting for a script run
NoRequest == <<"none">>

Init ==
    /\ pc = "start"
    /\ T_and_FM = "Both"
    /\ data_zipfile = [listdir |-> {"app.py", "Template.pptx"},
                       conditions |-> <<>>, missing |-> UNION MissingChoices]
    /\ condition_index = 0
    /\ all_info_for_slides = <<>>
    /\ all_slides_content = <<>>
    /\ temp_slide = <<>>
    /\ current_title = PyNone
    /\ current_subtitle = PyNone
    /\ info_index = 0
    /\ presentation_T = <<>>
    /\ presentation_FM = <<>>
    /\ slide_index = 0
    /\ latest_image_count = 0
    /\ saved = [name \in {"Summary_results_T.pptx", "Summary_results_FM.pptx"} |-> PyNone]
    /\ session_state = DirectoryKeys
    /\ raised = "none"
    /\ cache = <<>>
    /\ uploaded_file = PyNone
    /\ runs = 0
    /\ browser = [selected_page |-> Pages[1], menu |-> TRUE, inputs |-> TRUE,
                  button |-> TRUE, start_button |-> FALSE, request |-> NoRequest]

(***************************************************************************)
(* process_files: the records of one condition                             *)
(***************************************************************************)
\* the folder(s) between Data and Quantification in the csv path
CsvRootFolder(csv_file) ==
    LET after == SubSeq(csv_file, 2, Len(csv_file))
        upto == CHOOSE k \in 1..Len(after) : after[k] = "Quantification"
                                              /\ \A j \in 1..(k - 1) : after[j] # "Quantification"
    IN SubSeq(after, 1, upto - 1)

\* the edits of the table before it is sorted
CleanRow(row, approach) ==
    [Image_used |-> replace(replace(row.Image_used, <<"MAX_">>, <<>>), <<".tif">>, <<>>),
     Cell_quantified |-> PyInt(int(replace(row.Cell_quantified, <<"_1.roi">>, <<>>))),
     Particle_count_threshold |-> row.Particle_count_threshold,
     Particle_count_maxima |-> row.Particle_count_maxima]

\* mutant: the roi numbers are sorted as text, the column not made int
SortKey_text(row) ==
    <<SubtitleRank(row.Image_used[1])>>
        \o [k \in 1..Len(str(row.Cell_quantified)) |-> DigitVal(str(row.Cell_quantified)[k])]

\* key of sort_values(by=["Image used", "Cell quantified"])
SortKey(row) == <<SubtitleRank(row.Image_used[1]), IntOf(row.Cell_quantified)>>

sort_values(results_table) ==
    SortBy([k \in 1..Len(results_table) |-> <<SortKey(results_table[k]), results_table[k]>>])

\* mutant: with Thresholding only, the count is set to None with the unused fields
RowInfo_count_unset(condition_info, row, approach) ==
    LET ROI_name == str(row.Cell_quantified)
        ROI_Fluorescence_image ==
            replace(condition_info[2], <<"Quantification", "Results.csv">>,
                    <<"Cropped cells", "Fluorescence">> \o row.Image_used
                        \o ROI_name \o <<"_2.jpg">>)
        T_image == replace(replace(ROI_Fluorescence_image, <<"Fluorescence">>, <<"T_Particles">>),
                           <<"_2.jpg">>, <<"_1.jpg">>)
        FM_image == replace(replace(ROI_Fluorescence_image, <<"Fluorescence">>, <<"FM_Particles">>),
                            <<"_2.jpg">>, <<"_1.jpg">>)
    IN IF approach = "Thresholding only"
       THEN <<condition_info[1], row.Image_used, ROI_Fluorescence_image, ROI_name,
              T_image, PyNone, PyNone, PyNone>>
       ELSE IF approach = "Find Maxima only"
       THEN <<condition_info[1], row.Image_used, ROI_Fluorescence_image, ROI_name,
              PyNone, PyNone, FM_image, row.Particle_count_maxima>>
       ELSE <<condition_info[1], row.Image_used, ROI_Fluorescence_image, ROI_name,
              T_image, row.Particle_count_threshold, FM_image, row.Particle_count_maxima>>

\* mutant: with Find Maxima only, the Thresholding image is still made
RowInfo_T_image_kept(condition_info, row, approach) ==
    LET ROI_name == str(row.Cell_quantified)
        ROI_Fluorescence_image ==
            replace(condition_info[2], <<"Quantification", "Results.csv">>,
                    <<"Cropped cells", "Fluorescence">> \o row.Image_used
                        \o ROI_name \o <<"_2.jpg">>)
        T_image == replace(replace(ROI_Fluorescence_image, <<"Fluorescence">>, <<"T_Particles">>),
                           <<"_2.jpg">>, <<"_1.jpg">>)
        FM_image == replace(replace(ROI_Fluorescence_image, <<"Fluorescence">>, <<"FM_Particles">>),
                            <<"_2.jpg">>, <<"_1.jpg">>)
    IN IF approach = "Thresholding only"
       THEN <<condition_info[1], row.Image_used, ROI_Fluorescence_image, ROI_name,
              T_image, row.Particle_count_threshold, PyNone, PyNone>>
       ELSE IF approach = "Find Maxima only"
       THEN <<condition_info[1], row.Image_used, ROI_Fluorescence_image, ROI_name,
              T_image, PyNone, FM_image, row.Particle_count_maxima>>
       ELSE <<condition_info[1], row.Image_used, ROI_Fluorescence_image, ROI_name,
              T_image, row.Particle_count_threshold, FM_image, row.Particle_count_maxima>>

\* the list appended to all_info_for_slides for one row
RowInfo(condition_info, row, approach) ==
    LET ROI_title == condition_info[1]
        ROI_subtitle == row.Image_used
        ROI_name == str(row.Cell_quantified)
        ROI_Fluorescence_image ==
            replace(condition_info[2], <<"Quantification", "Results.csv">>,
                    <<"Cropped cells", "Fluorescence">> \o ROI_subtitle
                        \o ROI_name \o <<"_2.jpg">>)
        T_image == replace(replace(ROI_Fluorescence_image, <<"Fluorescence">>, <<"T_Particles">>),
                           <<"_2.jpg">>, <<"_1.jpg">>)
        FM_image == replace(replace(ROI_Fluorescence_image, <<"Fluorescence">>, <<"FM_Particles">>),
                            <<"_2.jpg">>, <<"_1.jpg">>)
    IN IF approach = "Thresholding only"
       THEN <<ROI_title, ROI_subtitle, ROI_Fluorescence_image, ROI_name,
              T_image, row.Particle_count_threshold, PyNone, PyNone>>
       ELSE IF approach = "Find Maxima only"
       THEN <<ROI_title, ROI_subtitle, ROI_Fluorescence_image, ROI_name,
              PyNone, PyNone, FM_image, row.Particle_count_maxima>>
       ELSE <<ROI_title, ROI_subtitle, ROI_Fluorescence_image, ROI_name,
              T_image, row.Particle_count_threshold, FM_image, row.Particle_count_maxima>>

\* the records of one condition, in the order its loop appends them
ConditionInfos(condition, approach) ==
    LET condition_info == <<CsvRootFolder(condition.csv), condition.csv>>
        results_table == sort_values([k \in 1..Len(condition.table) |->
                                         CleanRow(condition.table[k], approach)])
    IN [k \in 1..Len(results_table) |-> RowInfo(condition_info, results_table[k], approach)]

(***************************************************************************)
(* load_first_page: the start button is pressed with an uploaded file; the *)
(* file is written next to the app and process_files extracts it. Every    *)
(* file of Uploads holds the Data folder, so the test of the loop that     *)
(* waits for it ends the loop at once; SpecWait has the loop's steps       *)
(***************************************************************************)
\* the mask images a Data.zip holds: those of the rows of its tables, but for
\* the ones it lacks
MaskImages(file) ==
    UNION {UNION {LET info == RowInfo(<<CsvRootFolder(file.conditions[c].csv),
                                        file.conditions[c].csv>>,
                                      CleanRow(file.conditions[c].table[k], "Both"), "Both")
                  IN {info[5], info[7]} :
                     k \in 1..Len(file.conditions[c].table)} :
           c \in 1..Len(file.conditions)} \ file.missing

\* the top-level entries of a zip: the first name of the paths of its members
namelist(file) == {file.conditions[c].csv[1] : c \in 1..Len(file.conditions)}

\* the working directory after zip.extractall(): its top-level names
\* (os.listdir()), the csv files under Data and the mask images of
\* MissingChoices that Data lacks. The files of the zip replace those of the
\* same path, the other files stay; a zip with no Data entry leaves Data alone
extractall(folder, file) ==
    [listdir |-> folder.listdir \cup namelist(file),
     conditions |-> IF "Data" \in namelist(file) THEN file.conditions ELSE folder.conditions,
     missing |-> IF "Data" \in namelist(file) THEN folder.missing \ MaskImages(file)
                 ELSE folder.missing]

StartButton ==
    /\ pc = "start"
    /\ \E file \in Uploads :
          LET extracted == extractall(data_zipfile, file)
          IN \E approach \in Approaches :
                /\ T_and_FM' = approach
                /\ uploaded_file' = file
                /\ data_zipfile' = extracted
    /\ pc' = "extract"
    /\ runs' = runs + 1
    /\ UNCHANGED <<processVars, generateVars, session_state, raised, cache, browser>>

ReadCondition ==
    /\ pc = "extract"
    /\ condition_index < Len(data_zipfile.conditions)
    /\ condition_index' = condition_index + 1
    /\ all_info_for_slides' = all_info_for_slides
          \o ConditionInfos(data_zipfile.conditions[condition_index + 1], T_and_FM)
    /\ UNCHANGED <<runVars, pc, T_and_FM, data_zipfile, all_slides_content, temp_slide,
                   current_title, current_subtitle, info_index, generateVars,
                   session_state, raised>>

(***************************************************************************)
(* process_files: the grouping loop                                        *)
(***************************************************************************)
\* images per slide, the literal of the loop's test
SlideCapacity == 20

\* mutant: the reference title is not taken from the first record
FirstTitle_unset(infos) == PyNone

\* the reference title of the loop before its first iteration
FirstTitle(infos) == infos[1][1]

FirstSubtitle(infos) == infos[1][2]

\* mutant: a change of subtitle does not change the slide
ChangeOfSlide_no_subtitle(slide, info, title, subtitle) ==
    \/ Len(slide) = SlideCapacity
    \/ info[1] # title

\* mutant: the slide changes one image too late
ChangeOfSlide_late(slide, info, title, subtitle) ==
    \/ Len(slide) = SlideCapacity + 1
    \/ info[1] # title
    \/ info[2] # subtitle

\* mutant: the slide changes one image too early
ChangeOfSlide_early(slide, info, title, subtitle) ==
    \/ Len(slide) = SlideCapacity - 1
    \/ info[1] # title
    \/ info[2] # subtitle

\* the test that dumps temp_slide before info is attached
ChangeOfSlide(slide, info, title, subtitle) ==
    \/ Len(slide) = SlideCapacity
    \/ info[1] # title
    \/ info[2] # subtitle

\* mutant: temp_slide is not emptied after the dump
EmptiedSlide_kept(slide) == slide

\* temp_slide after the dump
EmptiedSlide(slide) == <<>>

\* what process_files returns once the loop has ended
ReturnedSlides(slides, slide) == slides

\* mutant: the first title and subtitle are read only when there is a record
GroupingStart_guarded ==
    /\ pc = "extract"
    /\ condition_index = Len(data_zipfile.conditions)
    /\ all_slides_content' = <<>>
    /\ temp_slide' = <<>>
    /\ pc' = "grouping"
    /\ current_title' = IF Len(all_info_for_slides) = 0 THEN PyNone
                        ELSE FirstTitle(all_info_for_slides)
    /\ current_subtitle' = IF Len(all_info_for_slides) = 0 THEN PyNone
                           ELSE FirstSubtitle(all_info_for_slides)
    /\ UNCHANGED <<runVars, T_and_FM, data_zipfile, condition_index, all_info_for_slides,
                   info_index, generateVars, session_state, raised>>

GroupingStart ==
    /\ pc = "extract"
    /\ condition_index = Len(data_zipfile.conditions)
    /\ all_slides_content' = <<>>
    /\ temp_slide' = <<>>
    /\ IF Len(all_info_for_slides) = 0
       THEN /\ pc' = "raised"
            /\ raised' = "IndexError"
            /\ UNCHANGED <<current_title, current_subtitle>>
       ELSE /\ pc' = "grouping"
            /\ current_title' = FirstTitle(all_info_for_slides)
            /\ current_subtitle' = FirstSubtitle(all_info_for_slides)
            /\ UNCHANGED raised
    /\ UNCHANGED <<runVars, T_and_FM, data_zipfile, condition_index, all_info_for_slides,
                   info_index, generateVars, session_state>>

\* mutant: the reference title is not renewed when the slide changes
GroupingStep_title_kept ==
    /\ pc = "grouping"
    /\ info_index < Len(all_info_for_slides)
    /\ LET info == all_info_for_slides[info_index + 1]
           change == ChangeOfSlide(temp_slide, info, current_title, current_subtitle)
       IN /\ all_slides_content' = IF change THEN Append(all_slides_content, temp_slide)
                                   ELSE all_slides_content
          /\ temp_slide' = Append(IF change THEN EmptiedSlide(temp_slide) ELSE temp_slide, info)
          /\ current_subtitle' = IF change THEN info[2] ELSE current_subtitle
    /\ info_index' = info_index + 1
    /\ UNCHANGED <<runVars, pc, T_and_FM, data_zipfile, condition_index, all_info_for_slides,
                   current_title, generateVars, session_state, raised>>

GroupingStep ==
    /\ pc = "grouping"
    /\ info_index < Len(all_info_for_slides)
    /\ LET info == all_info_for_slides[info_index + 1]
           change == ChangeOfSlide(temp_slide, info, current_title, current_subtitle)
       IN /\ all_slides_content' = IF change THEN Append(all_slides_content, temp_slide)
                                   ELSE all_slides_content
          /\ temp_slide' = Append(IF change THEN EmptiedSlide(temp_slide) ELSE temp_slide, info)
          /\ current_title' = IF change THEN info[1] ELSE current_title
          /\ current_subtitle' = IF change THEN info[2] ELSE current_subtitle
    /\ info_index' = info_index + 1
    /\ UNCHANGED <<runVars, pc, T_and_FM, data_zipfile, condition_index, all_info_for_slides,
                   generateVars, session_state, raised>>

\* the cache of st.cache_data after process_files(argument) has returned value
Cached(store, argument, value) ==
    [a \in DOMAIN store \cup {argument} |-> IF a = argument THEN value ELSE store[a]]

GroupingReturn ==
    /\ pc = "grouping"
    /\ info_index = Len(all_info_for_slides)
    /\ all_slides_content' = ReturnedSlides(all_slides_content, temp_slide)
    /\ cache' = Cached(cache, T_and_FM, ReturnedSlides(all_slides_content, temp_slide))
    /\ pc' = "T_check"
    /\ UNCHANGED <<uploaded_file, runs, browser, T_and_FM, data_zipfile, condition_index, all_info_for_slides,
                   temp_slide, current_title, current_subtitle, info_index,
                   generateVars, session_state, raised>>

(***************************************************************************)
(* slide_maker                                                             *)
(***************************************************************************)
\* pptx.util.Cm of a length given in hundredths of a centimetre:
\* int(cm * 360000) in double arithmetic, which loses one EMU for 5.1 and 10.7
Cm(hundredths) == hundredths * 3600 - (IF hundredths \in {510, 1070} THEN 1 ELSE 0)

title_width == 1700
title_height == 150
title_left_coordinate == 0
title_top_coordinate == 0
subtitle_width == 1700
subtitle_height == 150
subtitle_left_coordinate == 1700
subtitle_top_coordinate == 0
image_width == 325
image_height == 300
image_labels_width == 325
image_labels_height == 100

image_coordinates == <<
    <<25, 210, 350, 210>>,   <<700, 210, 1025, 210>>,   <<1375, 210, 1700, 210>>,
    <<2050, 210, 2375, 210>>,   <<2725, 210, 3050, 210>>,
    <<25, 640, 350, 640>>,   <<700, 640, 1025, 640>>,   <<1375, 640, 1700, 640>>,
    <<2050, 640, 2375, 640>>,   <<2725, 640, 3050, 640>>,
    <<25, 1070, 350, 1070>>, <<700, 1070, 1025, 1070>>, <<1375, 1070, 1700, 1070>>,
    <<2050, 1070, 2375, 1070>>, <<2725, 1070, 3050, 1070>>,
    <<25, 1500, 350, 1500>>, <<700, 1500, 1025, 1500>>, <<1375, 1500, 1700, 1500>>,
    <<2050, 1500, 2375, 1500>>, <<2725, 1500, 3050, 1500>> >>

\* mutant: the second row of labels repeats the tops of the first
image_labels_coordinates_row_repeated ==
    [i \in 1..Len(image_coordinates) |->
        LET from == IF i \in 6..10 THEN i - 5 ELSE i
        IN <<image_coordinates[i][1], image_coordinates[from][2] + image_height,
             image_coordinates[i][3], image_coordinates[from][4] + image_height>>]

image_labels_coordinates == <<
    <<25, 510, 350, 510>>,   <<700, 510, 1025, 510>>,   <<1375, 510, 1700, 510>>,
    <<2050, 510, 2375, 510>>,   <<2725, 510, 3050, 510>>,
    <<25, 940, 350, 940>>,   <<700, 940, 1025, 940>>,   <<1375, 940, 1700, 940>>,
    <<2050, 940, 2375, 940>>,   <<2725, 940, 3050, 940>>,
    <<25, 1370, 350, 1370>>, <<700, 1370, 1025, 1370>>, <<1375, 1370, 1700, 1370>>,
    <<2050, 1370, 2375, 1370>>, <<2725, 1370, 3050, 1370>>,
    <<25, 1800, 350, 1800>>, <<700, 1800, 1025, 1800>>, <<1375, 1800, 1700, 1800>>,
    <<2050, 1800, 2375, 1800>>, <<2725, 1800, 3050, 1800>> >>

add_textbox(left, top, width, height, text, bold, size) ==
    [shape |-> "textbox", left |-> left, top |-> top, width |-> width,
     height |-> height, text |-> text, bold |-> bold, size |-> size]

\* line: the accent-coloured outline given to the particle image
add_picture(image, left, top, width, height, line) ==
    [shape |-> "picture", left |-> left, top |-> top, width |-> width,
     height |-> height, image |-> image, line |-> line]

\* what opening an image file for add_picture raises, or "none"
PictureError(image) ==
    IF IsNone(image) THEN "AttributeError"
    ELSE IF image \in data_zipfile.missing THEN "FileNotFoundError"
    ELSE "none"

\* the text of the label under the particle image
ParticleLabel(count) == <<"P", "=">> \o str(count)

\* one iteration of the loop over the images of the slide: i is the loop index
\* (from 0), sofar is [shapes, raised] after the earlier iterations
SlideImage(sofar, i, F_images_for_slide, P_images_for_slide, F_images_labels, P_images_labels) ==
    LET fluorescence_image == F_images_for_slide[i + 1]
        particle_image == P_images_for_slide[i + 1]
        first == add_picture(fluorescence_image,
                             Cm(image_coordinates[i + 1][1]), Cm(image_coordinates[i + 1][2]),
                             Cm(image_width), Cm(image_height), FALSE)
        first_label == add_textbox(Cm(image_labels_coordinates[i + 1][1]),
                                   Cm(image_labels_coordinates[i + 1][2]),
                                   Cm(image_labels_width), Cm(image_labels_height),
                                   F_images_labels[i + 1], FALSE, 20)
        second == add_picture(particle_image,
                              Cm(image_coordinates[i + 1][3]), Cm(image_coordinates[i + 1][4]),
                              Cm(image_width), Cm(image_height), TRUE)
        second_label == add_textbox(Cm(image_labels_coordinates[i + 1][3]),
                                    Cm(image_labels_coordinates[i + 1][4]),
                                    Cm(image_labels_width), Cm(image_labels_height),
                                    ParticleLabel(P_images_labels[i + 1]), FALSE, 20)
    IN IF sofar.raised # "none" THEN sofar
       ELSE IF i + 1 > Len(image_coordinates)
       THEN [shapes |-> sofar.shapes, raised |-> "IndexError"]
       ELSE IF PictureError(fluorescence_image) # "none"
       THEN [shapes |-> sofar.shapes, raised |-> PictureError(fluorescence_image)]
       ELSE IF PictureError(particle_image) # "none"
       THEN [shapes |-> sofar.shapes \o <<first, first_label>>,
             raised |-> PictureError(particle_image)]
       ELSE [shapes |-> sofar.shapes \o <<first, first_label, second, second_label>>,
             raised |-> "none"]

\* the presentation with the new slide, and the exception raised if any
slide_maker(presentation_input, current_slide_title, current_slide_subtitle, image_count_for_slide, F_images_for_slide, P_images_for_slide, F_images_labels, P_images_labels) ==
    LET title == add_textbox(Cm(title_left_coordinate), Cm(title_top_coordinate),
                             Cm(title_width), Cm(title_height),
                             current_slide_title, TRUE, 32)
        subtitle == add_textbox(Cm(subtitle_left_coordinate), Cm(subtitle_top_coordinate),
                                Cm(subtitle_width), Cm(subtitle_height),
                                current_slide_subtitle, FALSE, 32)
        images[n \in 0..image_count_for_slide] ==
            IF n = 0 THEN [shapes |-> <<title, subtitle>>, raised |-> "none"]
            ELSE SlideImage(images[n - 1], n - 1, F_images_for_slide, P_images_for_slide,
                            F_images_labels, P_images_labels)
        slide == images[image_count_for_slide]
    IN [presentation |-> Append(presentation_input, slide.shapes), raised |-> slide.raised]

(***************************************************************************)
(* generate_pptxs                                                          *)
(***************************************************************************)
Column(slide_content, field) == [k \in 1..Len(slide_content) |-> slide_content[k][field]]

\* the parameters the Thresholding pass prepares for slide_maker
ThresholdingParameters(slide_content) ==
    [current_slide_title |-> slide_content[1][1],
     current_slide_subtitle |-> slide_content[1][2],
     image_count_for_slide |-> Len(slide_content),
     F_images_for_slide |-> Column(slide_content, 3),
     F_images_labels |-> Column(slide_content, 4),
     P_images_for_slide |-> Column(slide_content, 5),
     P_images_labels |-> Column(slide_content, 6)]

\* mutant: the Find Maxima pass labels its images with the Thresholding counts
FindMaximaParameters_T_labels(slide_content) ==
    [current_slide_title |-> slide_content[1][1],
     current_slide_subtitle |-> slide_content[1][2],
     image_count_for_slide |-> Len(slide_content),
     F_images_for_slide |-> Column(slide_content, 3),
     F_images_labels |-> Column(slide_content, 4),
     P_images_for_slide |-> Column(slide_content, 7),
     P_images_labels |-> Column(slide_content, 6)]

\* the parameters the Find Maxima pass prepares for slide_maker
FindMaximaParameters(slide_content) ==
    [current_slide_title |-> slide_content[1][1],
     current_slide_subtitle |-> slide_content[1][2],
     image_count_for_slide |-> Len(slide_content),
     F_images_for_slide |-> Column(slide_content, 3),
     F_images_labels |-> Column(slide_content, 4),
     P_images_for_slide |-> Column(slide_content, 7),
     P_images_labels |-> Column(slide_content, 8)]

\* mutant: the presentation is opened again from the template for every slide
MakeSlide_reopened(presentation, p) ==
    slide_maker(<<>>, p.current_slide_title, p.current_slide_subtitle,
                p.image_count_for_slide, p.F_images_for_slide, p.P_images_for_slide,
                p.F_images_labels, p.P_images_labels)

MakeSlide(presentation, p) ==
    slide_maker(presentation, p.current_slide_title, p.current_slide_subtitle,
                p.image_count_for_slide, p.F_images_for_slide, p.P_images_for_slide,
                p.F_images_labels, p.P_images_labels)

WantsThresholding(approach) == approach = "Both" \/ approach = "Thresholding only"

\* mutant: the Find Maxima pass runs only when both approaches are selected
WantsFindMaxima_both_only(approach) == approach = "Both"

WantsFindMaxima(approach) == approach = "Both" \/ approach = "Find Maxima only"

ThresholdingOpen ==
    /\ pc = "T_check"
    /\ IF WantsThresholding(T_and_FM)
       THEN /\ presentation_T' = <<>>
            /\ slide_index' = 0
            /\ pc' = "T_loop"
       ELSE /\ pc' = "FM_check"
            /\ UNCHANGED <<presentation_T, slide_index>>
    /\ UNCHANGED <<runVars, T_and_FM, data_zipfile, processVars, presentation_FM,
                   latest_image_count, saved, session_state, raised>>

ThresholdingSlide ==
    /\ pc = "T_loop"
    /\ slide_index < Len(all_slides_content)
    /\ LET slide_content == all_slides_content[slide_index + 1]
       IN IF Len(slide_content) = 0
          THEN /\ pc' = "raised"
               /\ raised' = "IndexError"
               /\ UNCHANGED <<presentation_T, slide_index, latest_image_count>>
          ELSE LET made == MakeSlide(presentation_T, ThresholdingParameters(slide_content))
               IN /\ presentation_T' = made.presentation
                  /\ latest_image_count' = Len(slide_content)
                  /\ raised' = made.raised
                  /\ pc' = IF made.raised = "none" THEN pc ELSE "raised"
                  /\ slide_index' = IF made.raised = "none" THEN slide_index + 1
                                    ELSE slide_index
    /\ UNCHANGED <<runVars, T_and_FM, data_zipfile, processVars, presentation_FM, saved,
                   session_state>>

ThresholdingSave ==
    /\ pc = "T_loop"
    /\ slide_index = Len(all_slides_content)
    /\ saved' = [saved EXCEPT !["Summary_results_T.pptx"] = presentation_T]
    /\ pc' = "FM_check"
    /\ UNCHANGED <<runVars, T_and_FM, data_zipfile, processVars, presentation_T, presentation_FM,
                   slide_index, latest_image_count, session_state, raised>>

FindMaximaOpen ==
    /\ pc = "FM_check"
    /\ IF WantsFindMaxima(T_and_FM)
       THEN /\ presentation_FM' = <<>>
            /\ slide_index' = 0
            /\ pc' = "FM_loop"
       ELSE /\ pc' = "paths"
            /\ UNCHANGED <<presentation_FM, slide_index>>
    /\ UNCHANGED <<runVars, T_and_FM, data_zipfile, processVars, presentation_T,
                   latest_image_count, saved, session_state, raised>>

FindMaximaSlide ==
    /\ pc = "FM_loop"
    /\ slide_index < Len(all_slides_content)
    /\ LET slide_content == all_slides_content[slide_index + 1]
       IN IF Len(slide_content) = 0
          THEN /\ pc' = "raised"
               /\ raised' = "IndexError"
               /\ UNCHANGED <<presentation_FM, slide_index, latest_image_count>>
          ELSE LET made == MakeSlide(presentation_FM, FindMaximaParameters(slide_content))
               IN /\ presentation_FM' = made.presentation
                  /\ latest_image_count' = Len(slide_content)
                  /\ raised' = made.raised
                  /\ pc' = IF made.raised = "none" THEN pc ELSE "raised"
                  /\ slide_index' = IF made.raised = "none" THEN slide_index + 1
                                    ELSE slide_index
    /\ UNCHANGED <<runVars, T_and_FM, data_zipfile, processVars, presentation_T, saved,
                   session_state>>

\* mutant: the save is inside the loop, after each slide
FindMaximaSave_in_loop ==
    /\ pc = "FM_loop"
    /\ slide_index >= 1
    /\ saved' = [saved EXCEPT !["Summary_results_FM.pptx"] = presentation_FM]
    /\ pc' = IF slide_index = Len(all_slides_content) THEN "paths" ELSE pc
    /\ UNCHANGED <<runVars, T_and_FM, data_zipfile, processVars, presentation_T, presentation_FM,
                   slide_index, latest_image_count, session_state, raised>>

FindMaximaSave ==
    /\ pc = "FM_loop"
    /\ slide_index = Len(all_slides_content)
    /\ saved' = [saved EXCEPT !["Summary_results_FM.pptx"] = presentation_FM]
    /\ pc' = "paths"
    /\ UNCHANGED <<runVars, T_and_FM, data_zipfile, processVars, presentation_T, presentation_FM,
                   slide_index, latest_image_count, session_state, raised>>

(***************************************************************************)
(* load_first_page: the paths of the download buttons                      *)
(***************************************************************************)
PreparePaths ==
    /\ pc = "paths"
    /\ session_state' = session_state
          \cup (IF WantsThresholding(T_and_FM) THEN {"path1"} ELSE {})
          \cup (IF WantsFindMaxima(T_and_FM) THEN {"path2"} ELSE {})
    /\ pc' = "done"
    /\ UNCHANGED <<runVars, T_and_FM, data_zipfile, processVars, generateVars, raised>>

Next ==
    \/ StartButton
    \/ ReadCondition
    \/ GroupingStart
    \/ GroupingStep
    \/ GroupingReturn
    \/ ThresholdingOpen
    \/ ThresholdingSlide
    \/ ThresholdingSave
    \/ FindMaximaOpen
    \/ FindMaximaSlide
    \/ FindMaximaSave
    \/ PreparePaths

Spec == Init /\ [][Next]_vars

(***************************************************************************)
(* Properties of the grouping loop                                         *)
(***************************************************************************)
\* process_files has returned its groups to load_first_page
Returned ==
    \/ pc \in {"T_check", "T_loop", "FM_check", "FM_loop", "paths", "done"}
    \/ pc = "raised" /\ Len(all_info_for_slides) > 0

\* the records of the groups, one after the other
Flatten(slides) ==
    LET upto[k \in 0..Len(slides)] == IF k = 0 THEN <<>> ELSE upto[k - 1] \o slides[k]
    IN upto[Len(slides)]

SlideSizes(slides) == [k \in 1..Len(slides) |-> Len(slides[k])]

\* all records of infos carry the title and subtitle of the first
SameGroup(infos) ==
    \A k \in 1..Len(infos) : infos[k][1] = infos[1][1] /\ infos[k][2] = infos[1][2]

\* s is t with some elements left out, the others in the order of t
IsSubsequence(s, t) ==
    LET matched[k \in 0..Len(t)] ==
            IF k = 0 THEN 0
            ELSE LET m == matched[k - 1]
                 IN IF m < Len(s) /\ s[m + 1] = t[k] THEN m + 1 ELSE m
    IN matched[Len(t)] = Len(s)

NoRepeats(s) == \A j, k \in 1..Len(s) : j # k => s[j] # s[k]

\* C1 (coverage, P3): once process_files has returned, the records of the
\* returned groups, concatenated in order, are exactly the extracted records.
C1_Coverage ==
    Returned => Flatten(all_slides_content) = all_info_for_slides

\* C2 (flush-on-end, P4): once the records are exhausted, the group still held
\* in temp_slide is the last returned group; 23 records of one title and
\* subtitle are returned as two groups of 20 and 3.
C2_FlushOnEnd ==
    Returned =>
        /\ temp_slide # <<>> =>
              /\ Len(all_slides_content) > 0
              /\ all_slides_content[Len(all_slides_content)] = temp_slide
        /\ (Len(all_info_for_slides) = 23 /\ SameGroup(all_info_for_slides)) =>
              SlideSizes(all_slides_content) = <<20, 3>>

\* C3 (capacity, P1): every group dumped by the loop holds at least 1 and at
\* most 20 records; an empty temp_slide is never dumped.
C3_Capacity ==
    \A k \in 1..Len(all_slides_content) :
        1 <= Len(all_slides_content[k]) /\ Len(all_slides_content[k]) <= 20

\* a full group of 20 has been dumped and process_files has returned
C3_Witness ==
    /\ Returned
    /\ \E k \in 1..Len(all_slides_content) : Len(all_slides_content[k]) = 20
    /\ \E k \in 1..Len(all_slides_content) : Len(all_slides_content[k]) = 1

\* C4 (homogeneity, P2): the records of a dumped group all carry the same
\* title and the same subtitle.
C4_Homogeneity ==
    \A k \in 1..Len(all_slides_content) : SameGroup(all_slides_content[k])

\* groups were dumped on a change of subtitle and on a change of title
C4_Witness ==
    /\ Returned
    /\ \E k \in 1..(Len(all_slides_content) - 1) :
          /\ all_slides_content[k][1][1] = all_slides_content[k + 1][1][1]
          /\ all_slides_content[k][1][2] # all_slides_content[k + 1][1][2]
          /\ Len(all_slides_content[k]) > 1
    /\ \E k \in 1..(Len(all_slides_content) - 1) :
          all_slides_content[k][1][1] # all_slides_content[k + 1][1][1]

\* C5 (exact capacity, P5): 20 records of one title and subtitle are returned
\* as exactly one group, holding those 20 records.
C5_ExactCapacity ==
    (Returned /\ Len(all_info_for_slides) = 20 /\ SameGroup(all_info_for_slides)) =>
        all_slides_content = <<all_info_for_slides>>

\* C6 (subtitle change, P6): 5 records of one subtitle followed by 3 records
\* of the same title and another subtitle are returned as groups of 5 and 3.
C6_SubtitleBreak ==
    (/\ Returned
     /\ Len(all_info_for_slides) = 8
     /\ SameGroup(SubSeq(all_info_for_slides, 1, 5))
     /\ SameGroup(SubSeq(all_info_for_slides, 6, 8))
     /\ all_info_for_slides[6][1] = all_info_for_slides[1][1]
     /\ all_info_for_slides[6][2] # all_info_for_slides[1][2]) =>
        SlideSizes(all_slides_content) = <<5, 3>>

\* C7 (order and ownership): the records of the dumped groups, concatenated in
\* order, are a subsequence of the extracted records in their order, and no
\* record occurs twice in them.
C7_OrderAndOwnership ==
    /\ IsSubsequence(Flatten(all_slides_content), all_info_for_slides)
    /\ NoRepeats(Flatten(all_slides_content))

\* several groups were dumped, one of them after 20 records of one subtitle
C7_Witness ==
    /\ Returned
    /\ Len(all_slides_content) >= 3
    /\ Len(all_slides_content[1]) = 20
    /\ NoRepeats(all_info_for_slides)

(***************************************************************************)
(* Properties of the slides                                                *)
(***************************************************************************)
\* Slot i (from 0) of a slide owns the shapes 3+4i .. 6+4i of the slide, after
\* the title and the subtitle: fluorescence image, its label, particle image,
\* its label.
HasFirstPair(shapes, i) == Len(shapes) >= 4 + 4 * i

HasSecondImage(shapes, i) == Len(shapes) >= 5 + 4 * i

HasSecondLabel(shapes, i) == Len(shapes) >= 6 + 4 * i

Slots(presentation) ==
    UNION {{<<k, i>> : i \in 0..(Len(all_slides_content[k]) - 1)} :
              k \in {j \in 1..Len(presentation) : j <= Len(all_slides_content)}}

\* s is the decimal string of c: digits only, no leading zero, of value c
IsDecimalOf(s, c) ==
    /\ Len(s) >= 1
    /\ \A k \in 1..Len(s) : \E d \in 0..9 : DigitChar[d + 1] = s[k]
    /\ Len(s) > 1 => s[1] # "0"
    /\ int(s) = c

\* C8 (no group of more than 20 reaches slide_maker): image_count_for_slide is
\* at most 20 in every call generate_pptxs makes, no slide holds more than 20
\* slots, and no lookup in the coordinate tables raises IndexError.
C8_SlotsInRange ==
    /\ latest_image_count <= 20
    /\ \A k \in 1..Len(presentation_T) : Len(presentation_T[k]) <= 2 + 4 * 20
    /\ \A k \in 1..Len(presentation_FM) : Len(presentation_FM[k]) <= 2 + 4 * 20
    /\ raised = "IndexError" => Len(all_info_for_slides) = 0

\* slide_maker was called with a full group of 20 and filled slot 19
C8_Witness ==
    /\ pc = "FM_loop"
    /\ latest_image_count = 20
    /\ \E k \in 1..Len(presentation_FM) : Len(presentation_FM[k]) = 2 + 4 * 20

AbsentRespected(presentation, imageField, countField) ==
    /\ \A slot \in Slots(presentation) :
          LET shapes == presentation[slot[1]]
              info == all_slides_content[slot[1]][slot[2] + 1]
          IN /\ HasSecondImage(shapes, slot[2]) => ~IsNone(info[imageField])
             /\ HasSecondLabel(shapes, slot[2]) => ~IsNone(info[countField])
    /\ \A k \in 1..Len(presentation) : \A j \in 1..Len(presentation[k]) :
          LET shape == presentation[k][j]
          IN IF shape.shape = "picture" THEN ~IsNone(shape.image)
             ELSE shape.text # <<"P", "=", "N", "o", "n", "e">>

\* C9 (absent fields): a slot has its particle image only when the record's
\* mask image of the pass's approach is not None, and its particle label only
\* when the record's count is not None; no picture is made of None and no
\* label reads P=None.
C9_AbsentRespected ==
    /\ AbsentRespected(presentation_T, 5, 6)
    /\ AbsentRespected(presentation_FM, 7, 8)

\* a Thresholding-only run, whose records have no Find Maxima fields, has
\* made and saved slides with both images and both labels in their slots
C9_Witness ==
    /\ pc = "done"
    /\ T_and_FM = "Thresholding only"
    /\ Len(presentation_T) >= 2
    /\ saved["Summary_results_T.pptx"] = presentation_T
    /\ \A slot \in Slots(presentation_T) :
          /\ HasSecondLabel(presentation_T[slot[1]], slot[2])
          /\ IsNone(all_slides_content[slot[1]][slot[2] + 1][7])
          /\ IsNone(all_slides_content[slot[1]][slot[2] + 1][8])

LabelsCorrect(presentation, imageField, countField) ==
    \A slot \in Slots(presentation) :
        LET shapes == presentation[slot[1]]
            i == slot[2]
            info == all_slides_content[slot[1]][i + 1]
        IN /\ HasFirstPair(shapes, i) =>
                 /\ shapes[3 + 4 * i].image = info[3]
                 /\ shapes[4 + 4 * i].text = info[4]
           /\ HasSecondImage(shapes, i) => shapes[5 + 4 * i].image = info[imageField]
           /\ (HasSecondLabel(shapes, i) /\ ~IsNone(info[countField])) =>
                 LET text == shapes[6 + 4 * i].text
                 IN /\ Len(text) > 2
                    /\ SubSeq(text, 1, 2) = <<"P", "=">>
                    /\ IsDecimalOf(SubSeq(text, 3, Len(text)), IntOf(info[countField]))

\* C10 (label correctness, P8): in each pass, the label under the particle
\* image of a slot reads P= followed by the decimal string of the count of the
\* slot's record for that approach, the label under the fluorescence image is
\* the record's ROI name, and both images are the record's own.
C10_LabelsCorrect ==
    /\ LabelsCorrect(presentation_T, 5, 6)
    /\ LabelsCorrect(presentation_FM, 7, 8)

\* a run with both approaches has saved both presentations, with counts of one
\* and of two digits, different in the two presentations
C10_Witness ==
    /\ pc = "done"
    /\ T_and_FM = "Both"
    /\ Len(presentation_FM) >= 1
    /\ Len(presentation_FM[1]) >= 2 + 4 * 4
    /\ Len(presentation_FM[1][6].text) = 3
    /\ Len(presentation_FM[1][18].text) = 4
    /\ presentation_FM[1][6].text # presentation_T[1][6].text

(***************************************************************************)
(* Properties of the passes of generate_pptxs                              *)
(***************************************************************************)
\* shapes is the finished slide of the group slide_content: its title, its
\* subtitle, and for every record, in order, the record's two images and labels
SlideOfPage(shapes, slide_content, imageField, countField) ==
    /\ Len(shapes) = 2 + 4 * Len(slide_content)
    /\ shapes[1].text = slide_content[1][1]
    /\ shapes[2].text = slide_content[1][2]
    /\ \A i \in 0..(Len(slide_content) - 1) :
          /\ shapes[3 + 4 * i].image = slide_content[i + 1][3]
          /\ shapes[4 + 4 * i].text = slide_content[i + 1][4]
          /\ shapes[5 + 4 * i].image = slide_content[i + 1][imageField]
          /\ shapes[6 + 4 * i].text = ParticleLabel(slide_content[i + 1][countField])

\* the first visited slides of presentation are the slides of the first
\* visited groups, in the order of the groups
SlidesOfPages(presentation, visited, imageField, countField) ==
    /\ Len(presentation) = visited
    /\ visited <= Len(all_slides_content)
    /\ \A k \in 1..visited :
          SlideOfPage(presentation[k], all_slides_content[k], imageField, countField)

\* C11 (one slide per page, in page order): while a pass runs, the slides made
\* so far are those of the groups visited so far, one slide per group and in
\* the order of the groups; a saved presentation has as many slides as there
\* are groups and its k-th slide carries the title, the subtitle and the
\* records of the k-th group.
C11_OneSlidePerPage ==
    /\ pc = "T_loop" => SlidesOfPages(presentation_T, slide_index, 5, 6)
    /\ pc = "FM_loop" => SlidesOfPages(presentation_FM, slide_index, 7, 8)
    /\ saved["Summary_results_T.pptx"] # PyNone =>
          SlidesOfPages(saved["Summary_results_T.pptx"], Len(all_slides_content), 5, 6)
    /\ saved["Summary_results_FM.pptx"] # PyNone =>
          SlidesOfPages(saved["Summary_results_FM.pptx"], Len(all_slides_content), 7, 8)

\* both passes have ended and saved three or more slides, for groups of
\* different titles and of different sizes
C11_Witness ==
    /\ pc = "done"
    /\ saved["Summary_results_T.pptx"] # PyNone
    /\ saved["Summary_results_FM.pptx"] # PyNone
    /\ Len(saved["Summary_results_FM.pptx"]) >= 3
    /\ all_slides_content[1][1][1] # all_slides_content[3][1][1]
    /\ Len(all_slides_content[1]) # Len(all_slides_content[2])

\* the images with the accent outline (the particle images) of a presentation
ParticleImages(presentation) ==
    UNION {{presentation[k][j].image :
               j \in {n \in 1..Len(presentation[k]) :
                         /\ presentation[k][n].shape = "picture"
                         /\ presentation[k][n].line}} :
           k \in 1..Len(presentation)}

\* the texts of the labels under the particle images of a presentation
ParticleLabels(presentation) ==
    UNION {{presentation[k][6 + 4 * i].text :
               i \in {n \in 0..Len(presentation[k]) : HasSecondLabel(presentation[k], n)}} :
           k \in 1..Len(presentation)}

\* the values of a field over the records of the returned groups
FieldValues(field) ==
    UNION {{all_slides_content[k][j][field] : j \in 1..Len(all_slides_content[k])} :
           k \in 1..Len(all_slides_content)}

\* C12 (one document per active variant): a run that completes has built and
\* saved Summary_results_T.pptx exactly when the selector is Both or
\* Thresholding only, and Summary_results_FM.pptx exactly when it is Both or
\* Find Maxima only; no slide or file is ever made for the other approach; the
\* Thresholding pass takes its particle images and counts from the Thresholding
\* fields of the records only, the Find Maxima pass from the Find Maxima fields.
C12_DocumentPerVariant ==
    /\ (presentation_T # <<>> \/ saved["Summary_results_T.pptx"] # PyNone) =>
          T_and_FM \in {"Both", "Thresholding only"}
    /\ (presentation_FM # <<>> \/ saved["Summary_results_FM.pptx"] # PyNone) =>
          T_and_FM \in {"Both", "Find Maxima only"}
    /\ pc = "done" =>
          /\ T_and_FM \in {"Both", "Thresholding only"} =>
                saved["Summary_results_T.pptx"] = presentation_T
          /\ T_and_FM \in {"Both", "Find Maxima only"} =>
                saved["Summary_results_FM.pptx"] = presentation_FM
    /\ Returned =>
          /\ ParticleImages(presentation_T) \subseteq FieldValues(5)
          /\ ParticleImages(presentation_FM) \subseteq FieldValues(7)
          /\ \A text \in ParticleLabels(presentation_T) :
                \E count \in FieldValues(6) : text = ParticleLabel(count)
          /\ \A text \in ParticleLabels(presentation_FM) :
                \E count \in FieldValues(8) : text = ParticleLabel(count)

\* a Find Maxima only run has completed: its document is saved with slides
\* and particle images, and there is no Thresholding document
C12_Witness ==
    /\ pc = "done"
    /\ T_and_FM = "Find Maxima only"
    /\ saved["Summary_results_T.pptx"] = PyNone
    /\ saved["Summary_results_FM.pptx"] # PyNone
    /\ Len(saved["Summary_results_FM.pptx"]) >= 2
    /\ ParticleImages(saved["Summary_results_FM.pptx"]) # {}

\* every slide of presentation is the finished slide of its group
AllPagesLaidOut(presentation) ==
    /\ Len(presentation) = Len(all_slides_content)
    /\ \A k \in 1..Len(presentation) :
          Len(presentation[k]) = 2 + 4 * Len(all_slides_content[k])

\* the file is on disk
OnDisk(file) == file # PyNone

\* C13 (all-or-nothing per pass): a document is on disk only after the loop of
\* its pass has ended, never while the loop runs, and it holds the finished
\* slide of every group; when a slide fails, the failing pass has saved no
\* document (a failure in the Thresholding pass or before it leaves no
\* document at all).
C13_AllOrNothing ==
    /\ pc = "T_loop" => ~OnDisk(saved["Summary_results_T.pptx"])
    /\ pc = "FM_loop" => ~OnDisk(saved["Summary_results_FM.pptx"])
    /\ OnDisk(saved["Summary_results_T.pptx"]) =>
          /\ saved["Summary_results_T.pptx"] = presentation_T
          /\ AllPagesLaidOut(presentation_T)
    /\ OnDisk(saved["Summary_results_FM.pptx"]) =>
          /\ saved["Summary_results_FM.pptx"] = presentation_FM
          /\ AllPagesLaidOut(presentation_FM)
    /\ pc = "raised" =>
          /\ ~OnDisk(saved["Summary_results_FM.pptx"])
          /\ presentation_FM = <<>> => ~OnDisk(saved["Summary_results_T.pptx"])

\* the Find Maxima pass failed on its second slide, after a finished first
\* slide and after the Thresholding pass had saved its document: there is no
\* Find Maxima document
C13_Witness ==
    /\ pc = "raised"
    /\ raised = "FileNotFoundError"
    /\ saved["Summary_results_T.pptx"] # PyNone
    /\ Len(saved["Summary_results_T.pptx"]) >= 2
    /\ Len(presentation_FM) = 2
    /\ Len(presentation_FM[1]) = 2 + 4 * Len(all_slides_content[1])
    /\ saved["Summary_results_FM.pptx"] = PyNone

\* C14 (no records): when the tables of the uploaded file hold no row, the
\* run ends with IndexError before the grouping loop handles anything: no
\* group is made or returned, no slide is made and no document is saved.
C14_NoRecords ==
    (Len(all_info_for_slides) = 0 /\ pc \notin {"start", "extract"}) =>
        /\ pc = "raised"
        /\ raised = "IndexError"
        /\ info_index = 0
        /\ temp_slide = <<>>
        /\ all_slides_content = <<>>
        /\ presentation_T = <<>>
        /\ presentation_FM = <<>>
        /\ \A name \in DOMAIN saved : ~OnDisk(saved[name])
        /\ session_state \cap {"path1", "path2"} = {}

\* both conditions of the uploaded file were read, their tables hold no row,
\* and the run has ended with the exception
C14_Witness ==
    /\ pc = "raised"
    /\ raised = "IndexError"
    /\ Len(data_zipfile.conditions) = 2
    /\ condition_index = 2
    /\ \A k \in 1..2 : Len(data_zipfile.conditions[k].table) = 0
    /\ all_info_for_slides = <<>>

(***************************************************************************)
(* Results.csv with its rows in any order                                  *)
(***************************************************************************)
\* most rows of a table whose rows are in any order
MaxShuffled == 3

\* the cells such a table can hold, of one and of two digits
ShuffledCells == {1, 9, 10}

ShuffledRows == {CsvRow(Subtitles[s], n) : s \in 1..Len(Subtitles), n \in ShuffledCells}

\* the tables of up to MaxShuffled different rows, in every order
ShuffledTables ==
    {table \in UNION {[1..n -> ShuffledRows] : n \in 0..MaxShuffled} :
        \A j, k \in 1..Len(table) : j # k => table[j] # table[k]}

\* Data.zip files whose first condition has its rows in any order
ShuffledUploads ==
    {[conditions |->
         <<[csv |-> CsvPath(Titles[1]), table |-> table],
           [csv |-> CsvPath(Titles[2]), table |-> ResultsCsv(b1, 0)]>>,
      missing |-> {}] :
        table \in ShuffledTables, b1 \in 0..MaxLater}

\* load_first_page: the start button is pressed with such a file uploaded
StartShuffled ==
    /\ pc = "start"
    /\ \E approach \in Approaches, file \in ShuffledUploads :
          /\ T_and_FM' = approach
          /\ uploaded_file' = file
          /\ data_zipfile' = extractall(data_zipfile, file)
    /\ pc' = "extract"
    /\ runs' = runs + 1
    /\ UNCHANGED <<processVars, generateVars, session_state, raised, cache, browser>>

NextOrder ==
    \/ StartShuffled
    \/ ReadCondition
    \/ GroupingStart
    \/ GroupingStep
    \/ GroupingReturn
    \/ ThresholdingOpen
    \/ ThresholdingSlide
    \/ ThresholdingSave
    \/ FindMaximaOpen
    \/ FindMaximaSlide
    \/ FindMaximaSave
    \/ PreparePaths

SpecOrder == Init /\ [][NextOrder]_vars

\* position of the condition of a title in the order the conditions were found
ConditionRank(title) ==
    CHOOSE k \in 1..Len(data_zipfile.conditions) :
        CsvRootFolder(data_zipfile.conditions[k].csv) = title

\* the records of the conditions read so far are as many as their rows
RecordPerRow ==
    LET rows[k \in 0..condition_index] ==
            IF k = 0 THEN 0 ELSE rows[k - 1] + Len(data_zipfile.conditions[k].table)
    IN Len(all_info_for_slides) = rows[condition_index]

\* C15 (order of the extracted records): there is one record per row; two
\* records in a row of all_info_for_slides either belong to one condition, and
\* then the first has the smaller subtitle, or the same subtitle and a roi
\* number that is not greater as an integer, or the first belongs to a
\* condition found earlier; this whatever the order of the rows in the csv.
C15_ExtractedOrder ==
    /\ RecordPerRow
    /\ \A j \in 1..(Len(all_info_for_slides) - 1) :
          LET a == all_info_for_slides[j]
              b == all_info_for_slides[j + 1]
          IN IF a[1] = b[1]
             THEN \/ SubtitleRank(a[2][1]) < SubtitleRank(b[2][1])
                  \/ a[2] = b[2] /\ int(a[4]) <= int(b[4])
             ELSE ConditionRank(a[1]) < ConditionRank(b[1])

\* the run has completed for a csv that lists cell 10 before cell 9 of one
\* image and the second image before the first, followed by a second condition
C15_Witness ==
    /\ pc = "done"
    /\ LET table == data_zipfile.conditions[1].table
       IN /\ \E j, k \in 1..Len(table) :
                /\ j < k
                /\ table[j] = CsvRow(Subtitles[1], 10)
                /\ table[k] = CsvRow(Subtitles[1], 9)
          /\ Len(table) = 3
          /\ table[1].Image_used[2] = Subtitles[2]
    /\ Len(all_info_for_slides) = 4
    /\ all_info_for_slides[4][1] # all_info_for_slides[1][1]

\* C16 (shape of the records): every record has 8 items; for each approach its
\* mask image and its count are both None or both set, and they are set
\* exactly when the radio button selects the approach (Both selects the two).
C16_RecordShape ==
    \A k \in 1..Len(all_info_for_slides) :
        LET info == all_info_for_slides[k]
        IN /\ Len(info) = 8
           /\ IsNone(info[5]) <=> IsNone(info[6])
           /\ IsNone(info[7]) <=> IsNone(info[8])
           /\ ~IsNone(info[5]) <=> T_and_FM \in {"Both", "Thresholding only"}
           /\ ~IsNone(info[7]) <=> T_and_FM \in {"Both", "Find Maxima only"}

\* a Find Maxima only run has extracted the records of two conditions, with
\* the Thresholding items None and the Find Maxima items set
C16_Witness ==
    /\ pc = "grouping"
    /\ T_and_FM = "Find Maxima only"
    /\ Len(all_info_for_slides) >= 3
    /\ all_info_for_slides[1][1] # all_info_for_slides[Len(all_info_for_slides)][1]
    /\ \A k \in 1..Len(all_info_for_slides) :
          /\ IsNone(all_info_for_slides[k][5])
          /\ IsNone(all_info_for_slides[k][6])
          /\ all_info_for_slides[k][8] \in {PyInt(n) : n \in 0..(3 * MaxRows + 1)}

(***************************************************************************)
(* Properties of the layout                                                *)
(***************************************************************************)
\* pairs of images in a row of the slide
GridColumns == 5

\* rows of pairs of images in a slide
GridRows == 4

GridRow(i) == i \div GridColumns

GridColumn(i) == i % GridColumns

\* the shapes of slot i of a slide are where entry i of the tables puts them
PlacedByEntry(shapes, i) ==
    /\ HasFirstPair(shapes, i) =>
          /\ shapes[3 + 4 * i].left = Cm(image_coordinates[i + 1][1])
          /\ shapes[3 + 4 * i].top = Cm(image_coordinates[i + 1][2])
          /\ shapes[4 + 4 * i].left = Cm(image_labels_coordinates[i + 1][1])
          /\ shapes[4 + 4 * i].top = Cm(image_labels_coordinates[i + 1][2])
    /\ HasSecondImage(shapes, i) =>
          /\ shapes[5 + 4 * i].left = Cm(image_coordinates[i + 1][3])
          /\ shapes[5 + 4 * i].top = Cm(image_coordinates[i + 1][4])
    /\ HasSecondLabel(shapes, i) =>
          /\ shapes[6 + 4 * i].left = Cm(image_labels_coordinates[i + 1][3])
          /\ shapes[6 + 4 * i].top = Cm(image_labels_coordinates[i + 1][4])

\* the two tables, in centimetres, as a grid filled row after row
RowMajorTables ==
    /\ Len(image_coordinates) = GridColumns * GridRows
    /\ Len(image_labels_coordinates) = Len(image_coordinates)
    /\ \A i, j \in 0..(Len(image_coordinates) - 1) :
          LET a == image_coordinates[i + 1]
              b == image_coordinates[j + 1]
          IN /\ GridColumn(i) = GridColumn(j) => a[1] = b[1] /\ a[3] = b[3]
             /\ GridColumn(i) < GridColumn(j) => a[1] < b[1] /\ a[3] < b[3]
             /\ GridRow(i) = GridRow(j) => a[2] = b[2] /\ a[4] = b[4]
             /\ GridRow(i) < GridRow(j) => a[2] < b[2] /\ a[4] < b[4]
    /\ \A i \in 0..(Len(image_coordinates) - 1) :
          LET image == image_coordinates[i + 1]
              label == image_labels_coordinates[i + 1]
          IN /\ image[2] = image[4]
             /\ label[1] = image[1]
             /\ label[3] = image[3]
             /\ label[2] = image[2] + image_height
             /\ label[4] = image[4] + image_height

\* C17 (grid filled row after row): the shapes of the record at position i of
\* a group are placed at entry i of the coordinate tables; with row = i div 5
\* and column = i mod 5, the two lefts of an entry depend on the column only
\* and grow with it, its two tops are equal, depend on the row only and grow
\* with it; a label has the left of its image and, in the centimetres of the
\* tables, the top of its image plus the 3 cm of the image height.
C17_RowMajorGrid ==
    /\ RowMajorTables
    /\ \A k \in 1..Len(presentation_T) :
          \A i \in 0..(Len(image_coordinates) - 1) : PlacedByEntry(presentation_T[k], i)
    /\ \A k \in 1..Len(presentation_FM) :
          \A i \in 0..(Len(image_coordinates) - 1) : PlacedByEntry(presentation_FM[k], i)

\* a slide with all its 20 slots filled has been saved
C17_Witness ==
    /\ pc = "done"
    /\ OnDisk(saved["Summary_results_FM.pptx"])
    /\ \E k \in 1..Len(saved["Summary_results_FM.pptx"]) :
          HasSecondLabel(saved["Summary_results_FM.pptx"][k], GridColumns * GridRows - 1)

\* the documented space between a pair of images and the next, in hundredths
\* of a centimetre
PairSeparation == 25

\* slot i of the slide is filled with its two images and its two labels
FilledSlot(shapes, i) == HasSecondLabel(shapes, i)

\* the spacing of slot i of a slide, measured on the placed shapes: the
\* particle image starts where the fluorescence image ends, the next pair of
\* the row starts PairSeparation after the particle image ends, and the pair
\* below starts PairSeparation under the labels
PairSpacing(shapes, i) ==
    LET first == shapes[3 + 4 * i]
        first_label == shapes[4 + 4 * i]
        second == shapes[5 + 4 * i]
        second_label == shapes[6 + 4 * i]
    IN /\ second.left = first.left + first.width
       /\ (GridColumn(i) < GridColumns - 1 /\ FilledSlot(shapes, i + 1)) =>
             shapes[3 + 4 * (i + 1)].left = second.left + second.width + Cm(PairSeparation)
       /\ FilledSlot(shapes, i + GridColumns) =>
             /\ shapes[3 + 4 * (i + GridColumns)].top
                   = first_label.top + first_label.height + Cm(PairSeparation)
             /\ shapes[5 + 4 * (i + GridColumns)].top
                   = second_label.top + second_label.height + Cm(PairSeparation)

\* C18 (spacing of the pairs, as the app documents it): in every slide made,
\* for every filled slot, the particle image starts exactly where the
\* fluorescence image ends, the next pair of the row is 0.25 cm to the right
\* of the pair, and the images of the next row are 0.25 cm under the bottom of
\* the labels of the pair.
C18_PairSpacing ==
    \A presentation \in {presentation_T, presentation_FM} :
        \A k \in 1..Len(presentation) :
            \A i \in 0..(Len(image_coordinates) - 1) :
                FilledSlot(presentation[k], i) => PairSpacing(presentation[k], i)

(***************************************************************************)
(* Several generations in one session of the app                           *)
(***************************************************************************)
\* most generations started in a session
MaxRuns == 2

\* most cells of the first image in the files uploaded in such a session
MaxRunRows == 2

\* the Data.zip files uploaded in such a session: they differ in the cells of
\* the first image, in the presence of a second condition and of a mask
RunUploads ==
    {[conditions |->
         <<[csv |-> CsvPath(Titles[1]), table |-> ResultsCsv(a1, 1)],
           [csv |-> CsvPath(Titles[2]), table |-> ResultsCsv(b1, 0)]>>,
      missing |-> m] :
        a1 \in 1..MaxRunRows, b1 \in 0..MaxLater,
        m \in {{}, {<<"Data", Titles[1], "Cropped cells", "FM_Particles", Subtitles[1], "1", "_1.jpg">>}}}

\* load_first_page: the start button is pressed with an uploaded file, for the
\* first time or again; process_files runs only when st.cache_data holds no
\* value for its argument, else the cached value is returned at once
StartRun ==
    /\ pc \in {"start", "done", "raised", "idle"}
    /\ runs < MaxRuns
    /\ runs' = runs + 1
    /\ raised' = "none"
    /\ \E approach \in Approaches, file \in RunUploads :
          /\ T_and_FM' = approach
          /\ uploaded_file' = file
          /\ IF approach \in DOMAIN cache
             THEN /\ all_slides_content' = cache[approach]
                  /\ pc' = "T_check"
                  /\ UNCHANGED data_zipfile
             ELSE /\ all_slides_content' = <<>>
                  /\ pc' = "extract"
                  /\ data_zipfile' = extractall(data_zipfile, file)
    /\ condition_index' = 0
    /\ all_info_for_slides' = <<>>
    /\ temp_slide' = <<>>
    /\ current_title' = PyNone
    /\ current_subtitle' = PyNone
    /\ info_index' = 0
    /\ presentation_T' = <<>>
    /\ presentation_FM' = <<>>
    /\ slide_index' = 0
    /\ latest_image_count' = 0
    /\ UNCHANGED <<saved, session_state, cache, browser>>

\* the script runs again without a generation (any other widget was used) and
\* shows the first page with the download buttons of the paths that are set
Rerun ==
    /\ pc \in {"done", "raised"}
    /\ pc' = "idle"
    /\ UNCHANGED <<runVars, T_and_FM, data_zipfile, processVars, generateVars,
                   session_state, raised>>

NextRuns ==
    \/ StartRun
    \/ ReadCondition
    \/ GroupingStart
    \/ GroupingStep
    \/ GroupingReturn
    \/ ThresholdingOpen
    \/ ThresholdingSlide
    \/ ThresholdingSave
    \/ FindMaximaOpen
    \/ FindMaximaSlide
    \/ FindMaximaSave
    \/ PreparePaths
    \/ Rerun

SpecRuns == Init /\ [][NextRuns]_vars

\* the records process_files extracts from a Data.zip
InfosOf(file, approach) ==
    LET upto[c \in 0..Len(file.conditions)] ==
            IF c = 0 THEN <<>>
            ELSE upto[c - 1] \o ConditionInfos(file.conditions[c], approach)
    IN upto[Len(file.conditions)]

\* the groups the loop of process_files makes of the records, and returns
GroupsOf(infos) ==
    LET after[k \in 0..Len(infos)] ==
            IF k = 0
            THEN [slides |-> <<>>, slide |-> <<>>,
                  title |-> FirstTitle(infos), subtitle |-> FirstSubtitle(infos)]
            ELSE LET before == after[k - 1]
                     info == infos[k]
                     change == ChangeOfSlide(before.slide, info, before.title, before.subtitle)
                 IN [slides |-> IF change THEN Append(before.slides, before.slide)
                                ELSE before.slides,
                     slide |-> Append(IF change THEN EmptiedSlide(before.slide)
                                      ELSE before.slide, info),
                     title |-> IF change THEN info[1] ELSE before.title,
                     subtitle |-> IF change THEN info[2] ELSE before.subtitle]
    IN ReturnedSlides(after[Len(infos)].slides, after[Len(infos)].slide)

\* generate_pptxs has been called in the generation under way or just ended
Generating == pc \in {"T_check", "T_loop", "FM_check", "FM_loop", "paths", "done"}

\* C19 (fresh pages in every generation): the groups handed to generate_pptxs
\* are those process_files makes of the file uploaded for this generation,
\* with the approach selected for it, whatever was uploaded and selected in
\* the generations before.
C19_FreshPages ==
    Generating => all_slides_content = GroupsOf(InfosOf(uploaded_file, T_and_FM))

\* the first page is shown with its download buttons: at the end of a
\* generation that completed, or in a later run of the script
PageShown == pc \in {"done", "idle"}

\* the latest generation ran the Thresholding pass to its end
ThresholdingCompleted ==
    /\ T_and_FM \in {"Both", "Thresholding only"}
    /\ raised = "none" \/ presentation_FM # <<>>

\* the latest generation ran the Find Maxima pass to its end
FindMaximaCompleted ==
    /\ T_and_FM \in {"Both", "Find Maxima only"}
    /\ raised = "none"

\* C20 (what the download buttons serve): whenever the first page shows the
\* download button of an approach, the latest generation has run the pass of
\* that approach to its end, and the file the button reads is the
\* presentation that pass built, with the finished slide of every group of
\* that generation.
C20_OfferedIsLatest ==
    PageShown =>
        /\ "path1" \in session_state =>
              /\ ThresholdingCompleted
              /\ saved["Summary_results_T.pptx"] = presentation_T
              /\ AllPagesLaidOut(presentation_T)
        /\ "path2" \in session_state =>
              /\ FindMaximaCompleted
              /\ saved["Summary_results_FM.pptx"] = presentation_FM
              /\ AllPagesLaidOut(presentation_FM)

(***************************************************************************)
(* The loop that waits for the Data folder                                 *)
(***************************************************************************)
\* most cells of the first image in the files uploaded here
MaxWaitRows == 2

\* the zip files uploaded here: a Data folder with its conditions, or the
\* first condition's folder zipped without the Data folder around it
WaitUploads ==
    {[conditions |->
         <<[csv |-> CsvPath(Titles[1]), table |-> ResultsCsv(a1, 1)],
           [csv |-> CsvPath(Titles[2]), table |-> ResultsCsv(b1, 0)]>>,
      missing |-> {}] : a1 \in 0..MaxWaitRows, b1 \in 0..MaxLater}
    \cup {[conditions |-> <<[csv |-> Tail(CsvPath(Titles[1])), table |-> ResultsCsv(a1, 1)]>>,
           missing |-> {}] : a1 \in 0..MaxWaitRows}

\* load_first_page: the start button is pressed with an uploaded file;
\* process_files extracts it and comes to the test of the waiting loop
StartWait ==
    /\ pc = "start"
    /\ \E file \in WaitUploads, approach \in Approaches :
          /\ T_and_FM' = approach
          /\ uploaded_file' = file
          /\ data_zipfile' = extractall(data_zipfile, file)
    /\ pc' = "wait"
    /\ runs' = runs + 1
    /\ UNCHANGED <<processVars, generateVars, session_state, raised, cache, browser>>

\* while not "Data" in os.listdir(): time.sleep(1), and the test again
WaitForData ==
    /\ pc = "wait"
    /\ "Data" \notin data_zipfile.listdir
    /\ UNCHANGED vars

\* "Data" is in os.listdir(): the loop ends and the csv files are looked for
DataFound ==
    /\ pc = "wait"
    /\ "Data" \in data_zipfile.listdir
    /\ pc' = "extract"
    /\ UNCHANGED <<runVars, T_and_FM, data_zipfile, processVars, generateVars,
                   session_state, raised>>

NextWait ==
    \/ StartWait
    \/ WaitForData
    \/ DataFound
    \/ ReadCondition
    \/ GroupingStart
    \/ GroupingStep
    \/ GroupingReturn
    \/ ThresholdingOpen
    \/ ThresholdingSlide
    \/ ThresholdingSave
    \/ FindMaximaOpen
    \/ FindMaximaSlide
    \/ FindMaximaSave
    \/ PreparePaths

\* the script run is never suspended: a step that can be taken is taken
SpecWait == Init /\ [][NextWait]_vars /\ WF_vars(NextWait)

\* C21: process_files leaves the loop that waits for Data, whatever the zip
\* holds: whenever it is at the loop's test, Data is in the working directory
\* and the test ends the loop. (At the test without Data the only step is the
\* sleep, which changes nothing, and nothing else runs: that state is never
\* left.)
C21_LeavesWaitLoop ==
    pc = "wait" => "Data" \in data_zipfile.listdir

\* the same as a property of the whole run: the test of the loop is always
\* followed by the search for the csv files
WaitEnds == (pc = "wait") ~> (pc = "extract")

(***************************************************************************)
(* The invariant of the grouping loop                                      *)
(***************************************************************************)
\* the grouping loop has run at least one iteration, or has ended and left
\* its variables as they were
AfterIteration ==
    \/ pc = "grouping" /\ info_index >= 1
    \/ Returned

\* C22: after each iteration of the grouping loop, the groups dumped so far
\* followed by temp_slide are exactly the records visited so far, in order;
\* temp_slide holds 1..20 records, all with the reference title and subtitle;
\* so when the loop ends on a non-empty input temp_slide still holds the last
\* 1..20 records of the input
C22_LoopInvariant ==
    AfterIteration =>
        /\ Flatten(all_slides_content) \o temp_slide
              = SubSeq(all_info_for_slides, 1, info_index)
        /\ Len(temp_slide) \in 1..SlideCapacity
        /\ \A k \in 1..Len(temp_slide) :
              /\ temp_slide[k][1] = current_title
              /\ temp_slide[k][2] = current_subtitle
        /\ info_index = Len(all_info_for_slides) =>
              temp_slide = SubSeq(all_info_for_slides,
                                  Len(all_info_for_slides) - Len(temp_slide) + 1,
                                  Len(all_info_for_slides))

\* the loop has ended after it dumped a full group and a group of another
\* subtitle and one of another title
C22_Witness ==
    /\ pc = "grouping"
    /\ info_index = Len(all_info_for_slides)
    /\ Len(all_slides_content) >= 3
    /\ Len(all_slides_content[1]) = SlideCapacity
    /\ temp_slide[1][1] # all_slides_content[1][1][1]

(***************************************************************************)
(* Pages are as large as they can be                                       *)
(***************************************************************************)
\* groups k and k + 1 of slides carry the same title and the same subtitle
SamePlace(slides, k) ==
    /\ slides[k][1][1] = slides[k + 1][1][1]
    /\ slides[k][1][2] = slides[k + 1][1][2]

\* C23: no page is broken without need: of two consecutive groups of
\* all_slides_content with the same title and the same subtitle, the earlier
\* holds exactly 20 records
C23_MaximalPages ==
    \A k \in 1..(Len(all_slides_content) - 1) :
        SamePlace(all_slides_content, k) => Len(all_slides_content[k]) = SlideCapacity

\* process_files has returned groups of which the second continues the image
\* of the first
C23_Witness ==
    /\ Returned
    /\ Len(all_slides_content) >= 2
    /\ SamePlace(all_slides_content, 1)

(***************************************************************************)
(* A session from its first script run                                     *)
(*                                                                         *)
(* The script runs once when the session opens, with every widget at its   *)
(* default, and once more for every request of the user (a page chosen in  *)
(* the menu, a file put in the uploader, an approach chosen, the button    *)
(* pressed). A request can be made as soon as its widget is displayed, and *)
(* a widget stays displayed until a run shows the page without it. It      *)
(* is taken up when the running script next sends an element to the page,  *)
(* which ends that run, or when the run has ended.                         *)
(***************************************************************************)
\* most generations started in such a session
MaxGenerations == 2

\* most cells of an image in the files uploaded in such a session
MaxSessionRows == 1

\* the Data.zip files uploaded in such a session: one condition, the same
\* cells in both images
SessionUploads ==
    {[conditions |-> <<[csv |-> CsvPath(Titles[1]), table |-> ResultsCsv(a1, a1)]>>,
      missing |-> {}] : a1 \in 0..MaxSessionRows}

\* Python's truth value of the uploader's value
Uploaded(file) == PyNone # file

\* everything but the page in the browser
serverVars == <<pc, T_and_FM, data_zipfile, processVars, generateVars, session_state,
                raised, cache, uploaded_file, runs>>

\* the session opens: no script has run, nothing is displayed, no key is set
InitSession ==
    /\ pc = "new"
    /\ T_and_FM = "Both"
    /\ data_zipfile = [listdir |-> {"app.py", "Template.pptx"},
                       conditions |-> <<>>, missing |-> UNION MissingChoices]
    /\ condition_index = 0
    /\ all_info_for_slides = <<>>
    /\ all_slides_content = <<>>
    /\ temp_slide = <<>>
    /\ current_title = PyNone
    /\ current_subtitle = PyNone
    /\ info_index = 0
    /\ presentation_T = <<>>
    /\ presentation_FM = <<>>
    /\ slide_index = 0
    /\ latest_image_count = 0
    /\ saved = [name \in {"Summary_results_T.pptx", "Summary_results_FM.pptx"} |-> PyNone]
    /\ session_state = {}
    /\ raised = "none"
    /\ cache = <<>>
    /\ uploaded_file = PyNone
    /\ runs = 0
    /\ browser = [selected_page |-> Pages[1], menu |-> FALSE, inputs |-> FALSE,
                  button |-> FALSE, start_button |-> FALSE, request |-> NoRequest]

\* the first script run starts and displays the menu
FirstRun ==
    /\ pc = "new"
    /\ pc' = "script"
    /\ browser' = [browser EXCEPT !.menu = TRUE]
    /\ UNCHANGED <<T_and_FM, data_zipfile, processVars, generateVars, session_state,
                   raised, cache, uploaded_file, runs>>

\* the user chooses another page in the menu
SelectPage ==
    /\ browser.menu
    /\ browser.request = NoRequest
    /\ \E k \in 1..Len(Pages) :
          /\ Pages[k] # browser.selected_page
          /\ browser' = [browser EXCEPT !.request = <<"page", Pages[k]>>]
    /\ UNCHANGED serverVars

\* the user puts a file in the uploader
UploadFile ==
    /\ browser.inputs
    /\ browser.request = NoRequest
    /\ \E file \in SessionUploads :
          browser' = [browser EXCEPT !.request = <<"file", file>>]
    /\ UNCHANGED serverVars

\* the user chooses another approach
ChooseApproach ==
    /\ browser.inputs
    /\ browser.request = NoRequest
    /\ \E approach \in Approaches \ {T_and_FM} :
          browser' = [browser EXCEPT !.request = <<"radio", approach>>]
    /\ UNCHANGED serverVars

\* the user presses the start button
ClickStart ==
    /\ browser.button
    /\ browser.request = NoRequest
    /\ runs < MaxGenerations
    /\ browser' = [browser EXCEPT !.request = <<"click">>]
    /\ UNCHANGED serverVars

\* mutant: the running script can be ended between any two statements
YieldPoint_any_statement == pc # "new"

\* the running script sends an element to the page: after the menu, after
\* the uploader and the radio button, in generate_pptxs (its rule, its
\* columns, the progress bars), and at the download buttons, which are there
\* once a path key is set
YieldPoint ==
    \/ pc \in {"script", "inputs", "T_check", "T_loop", "FM_check", "FM_loop"}
    \/ pc \in {"loaded", "done"} /\ session_state \cap {"path1", "path2"} # {}

\* the script runs again for the user's request, with the widget's new value;
\* the button is pressed in this run only when the request is its click
BeginRun ==
    /\ browser.request # NoRequest
    /\ pc \in {"start", "raised"} \/ YieldPoint
    /\ LET request == browser.request
       IN /\ browser' = [browser EXCEPT
                            !.request = NoRequest,
                            !.start_button = (request[1] = "click"),
                            !.selected_page = IF request[1] = "page" THEN request[2] ELSE @]
          /\ uploaded_file' = IF request[1] = "file" THEN request[2] ELSE uploaded_file
          /\ T_and_FM' = IF request[1] = "radio" THEN request[2] ELSE T_and_FM
    /\ pc' = "script"
    /\ raised' = "none"
    /\ condition_index' = 0
    /\ all_info_for_slides' = <<>>
    /\ all_slides_content' = <<>>
    /\ temp_slide' = <<>>
    /\ current_title' = PyNone
    /\ current_subtitle' = PyNone
    /\ info_index' = 0
    /\ presentation_T' = <<>>
    /\ presentation_FM' = <<>>
    /\ slide_index' = 0
    /\ latest_image_count' = 0
    /\ UNCHANGED <<data_zipfile, saved, session_state, cache, runs>>

\* load_first_page: the uploader and the radio button are displayed
DisplayInputs ==
    /\ pc = "script"
    /\ browser.selected_page = Pages[1]
    /\ browser' = [browser EXCEPT !.inputs = TRUE]
    /\ pc' = "inputs"
    /\ UNCHANGED <<T_and_FM, data_zipfile, processVars, generateVars, session_state,
                   raised, cache, uploaded_file, runs>>

\* load_first_page: the start button is displayed; with the button pressed
\* and a file uploaded process_files is called (st.cache_data returns at once
\* what it holds for the argument)
LoadFirstPage ==
    /\ pc = "inputs"
    /\ browser' = [browser EXCEPT !.button = TRUE]
    /\ IF browser.start_button /\ Uploaded(uploaded_file)
       THEN /\ runs' = runs + 1
            /\ IF T_and_FM \in DOMAIN cache
               THEN /\ all_slides_content' = cache[T_and_FM]
                    /\ pc' = "T_check"
                    /\ UNCHANGED data_zipfile
               ELSE /\ pc' = "extract"
                    /\ data_zipfile' = extractall(data_zipfile, uploaded_file)
                    /\ UNCHANGED all_slides_content
       ELSE /\ pc' = "loaded"
            /\ UNCHANGED <<runs, data_zipfile, all_slides_content>>
    /\ UNCHANGED <<T_and_FM, condition_index, all_info_for_slides, temp_slide,
                   current_title, current_subtitle, info_index, generateVars,
                   session_state, raised, cache, uploaded_file>>

\* load_second_page, load_third_page: text only; the widgets of the first page
\* are gone, and their values with them
LoadTextPage ==
    /\ pc = "script"
    /\ browser.selected_page # Pages[1]
    /\ browser' = [browser EXCEPT !.inputs = FALSE, !.button = FALSE]
    /\ uploaded_file' = PyNone
    /\ T_and_FM' = "Both"
    /\ pc' = "loaded"
    /\ UNCHANGED <<data_zipfile, processVars, generateVars, session_state, raised,
                   cache, runs>>

\* change_pages, once the page has been loaded: the keys of the directory and
\* of the template are set, and the script run ends
SetDirectory ==
    /\ pc \in {"loaded", "done"}
    /\ session_state' = session_state \cup DirectoryKeys
    /\ pc' = "start"
    /\ UNCHANGED <<runVars, T_and_FM, data_zipfile, processVars, generateVars, raised>>

NextSession ==
    \/ FirstRun
    \/ SelectPage
    \/ UploadFile
    \/ ChooseApproach
    \/ ClickStart
    \/ BeginRun
    \/ DisplayInputs
    \/ LoadFirstPage
    \/ LoadTextPage
    \/ SetDirectory
    \/ ReadCondition
    \/ GroupingStart
    \/ GroupingStep
    \/ GroupingReturn
    \/ ThresholdingOpen
    \/ ThresholdingSlide
    \/ ThresholdingSave
    \/ FindMaximaOpen
    \/ FindMaximaSlide
    \/ FindMaximaSave
    \/ PreparePaths

SpecSession == InitSession /\ [][NextSession]_vars

\* process_files or generate_pptxs is running
Running == pc \in {"extract", "grouping", "T_check", "T_loop", "FM_check", "FM_loop"}

ClickBeforeKeys ==
    /\ pc = "loaded"
    /\ browser.request = <<"click">>
    /\ session_state = {}

====
